---- MODULE Spec2Model ----
(***************************************************************************)
(* Frame loop of ds_pba::VulkanMvp (src/src/pba/gfx/vk_mvp.cpp).           *)
(*                                                                         *)
(* One CPU thread runs run_loop: poll events, build_ui, draw_frame.  The   *)
(* device executes queue submissions asynchronously and signals the        *)
(* fence of a submission when it completes.  Blocking calls               *)
(* (vkWaitForFences, vkDeviceWaitIdle, glfwWaitEvents) are separate steps   *)
(* whose guard is the condition the call waits for.                        *)
(*                                                                         *)
(* The main loop and the surface-format selection of DSEngine              *)
(* (src/engine/src/engine.hpp), a separate program, have their own         *)
(* variables and specifications (SpecEngine, SpecFormat).                  *)
(***************************************************************************)
EXTENDS Integers, Naturals, Sequences, FiniteSets, TLC

VARIABLES
    pc,                  \* position of the CPU thread
    frame_index,         \* Impl::frame_index
    fence,               \* frames[s].in_flight signalled?
    cmd,                 \* lifecycle state of frames[s].cmd
    cmd_body,            \* what is recorded in frames[s].cmd
    queue,               \* submissions the device has not completed, oldest first
    swapchain,           \* swapchain, its images, views and framebuffers
    image_index,         \* image_index local of draw_frame (0 outside draw_frame)
    framebuffer_resized, \* Impl::framebuffer_resized
    fb_size,             \* what glfwGetFramebufferSize reports
    should_close,        \* what glfwWindowShouldClose reports
    offscreen,           \* Impl::offscreen
    ro_pos,              \* destroy_offscreen: << slot of the loop, statement within it >>
    px,                  \* px_w, px_h locals of build_ui (<<0, 0>> outside build_ui)
    ui_tex,              \* texture handle the UI draw list of this frame samples
    rc_ret,              \* where recreate_swapchain returns to ("none" outside it)
    last_acquire,        \* result of the most recent vkAcquireNextImageKHR
    it,                  \* log of the iteration in progress
    handles,             \* the objects of Impl that exist, by the name of their init step
    sem_wait,            \* the queued presents that have not yet waited on their
                         \* semaphore, oldest first: slot of the semaphore and image
    \* DSEngine (src/engine/src/engine.hpp)
    ds_pc,               \* position of DSEngine::main ("off": not running)
    g_SwapChainRebuild,  \* DSEngine::g_SwapChainRebuild
    done,                \* done local of DSEngine::main
    win,                 \* what SDL_GetWindowSize reports
    minimized,           \* SDL_WINDOW_MINIMIZED in SDL_GetWindowFlags
    wd,                  \* g_MainWindowData: Width, Height, FrameIndex
    ds_it,               \* log of the iteration of DSEngine::main in progress
    avail_format,        \* what vkGetPhysicalDeviceSurfaceFormatsKHR reports
    m_surface_format     \* EngineContext::m_surface_format

dsvars == << ds_pc, g_SwapChainRebuild, done, win, minimized, wd, ds_it,
             avail_format, m_surface_format >>

vars == << dsvars, sem_wait, handles, pc, frame_index, fence, cmd, cmd_body, queue, swapchain, image_index,
           framebuffer_resized, fb_size, should_close, offscreen, ro_pos, px, ui_tex,
           rc_ret, last_acquire, it >>

---------------------------------------------------------------------------
\* Program constants

k_frames_in_flight == 2

InitOffscreenW == 1280

InitOffscreenH == 720

\* UINT32_MAX (0xFFFFFFFF) as the signed 32-bit integer with the same bits,
\* a value no extent of the model takes
UINT32_MAX == 0 - 1

\* Bounds of the model

MaxWin == 1

MaxPanel == 0

MaxMinImages == 1

ExtraImages == 1

MaxFormats == 2

TexPool == 2

Slots == 0 .. (k_frames_in_flight - 1)

WinSizes == (0 .. MaxWin) \X (0 .. MaxWin)

PanelW == (0 .. MaxPanel) \cup {InitOffscreenW}

PanelH == (0 .. MaxPanel) \cup {InitOffscreenH}

TexIds == 1 .. TexPool

NoClamp(a, b) == b

Max(a, b) == IF a >= b THEN a ELSE b

\* extents a surface may report; currentExtent is << UINT32_MAX, UINT32_MAX >> when
\* the surface leaves the extent to the swapchain
Extents == (1 .. (MaxWin + 1)) \X (1 .. (MaxWin + 1))

UndefinedExtent == << UINT32_MAX, UINT32_MAX >>

\* VkSurfaceCapabilitiesKHR as far as create_swapchain and choose_extent read it
CountCaps ==
    { c \in [minImageCount : 1 .. MaxMinImages, maxImageCount : 0 .. (MaxMinImages + 1)] :
        c.maxImageCount = 0 \/ c.maxImageCount >= c.minImageCount }

ExtentCaps ==
    { e \in [currentExtent : Extents \cup {UndefinedExtent},
             minImageExtent : Extents, maxImageExtent : Extents] :
        /\ \A k \in 1 .. 2 : e.minImageExtent[k] <= e.maxImageExtent[k]
        /\ e.currentExtent # UndefinedExtent =>
              \A k \in 1 .. 2 : /\ e.minImageExtent[k] <= e.currentExtent[k]
                                /\ e.currentExtent[k] <= e.maxImageExtent[k] }

Caps(c, e) ==
    [minImageCount |-> c.minImageCount, maxImageCount |-> c.maxImageCount,
     currentExtent |-> e.currentExtent, minImageExtent |-> e.minImageExtent,
     maxImageExtent |-> e.maxImageExtent]

CapsSet == { Caps(c, e) : c \in CountCaps, e \in ExtentCaps }

\* the capability sets the frame loop is explored with: the surface reports the
\* window's framebuffer size z as its current extent (the loop reads no extent)
\* and asks for one image at least with no upper limit (the loop reads no
\* image count; SpecSurface and SpecInit explore all of CapsSet)
LoopCaps(z) ==
    { Caps([minImageCount |-> 1, maxImageCount |-> 0],
           [currentExtent |-> z, minImageExtent |-> << 1, 1 >>,
            maxImageExtent |-> << MaxWin + 1, MaxWin + 1 >>]) }

AcquireResults == {"SUCCESS", "SUBOPTIMAL", "OUT_OF_DATE", "ERROR"}

PresentResults == {"SUCCESS", "SUBOPTIMAL", "OUT_OF_DATE", "ERROR"}

---------------------------------------------------------------------------
\* Helpers

\* the steps of init_all in order; "swapchain" and "offscreen" create what the
\* variables swapchain and offscreen hold, every other step one entry of handles
InitOrder ==
    << "window", "instance", "surface", "device", "allocator", "cmd_pool",
       "swapchain", "sync", "imgui_pool", "imgui", "offscreen", "cube" >>

AllHandles ==
    { InitOrder[k] : k \in DOMAIN InitOrder } \ {"swapchain", "offscreen"}

\* number of submissions of slot s the device has not completed
Pending(s) == Cardinality({ i \in 1 .. Len(queue) : queue[i].slot = s })

DeviceIdle == queue = << >>

NullOffscreen ==
    [tex |-> 0, framebuffer |-> FALSE, depth |-> FALSE, color |-> FALSE,
     width |-> 1, height |-> 1]

\* framebuffer, depth image and view, colour image and view of offscreen[s] exist
OffscreenLive(s) ==
    offscreen[s].framebuffer /\ offscreen[s].depth /\ offscreen[s].color

CreateWithoutTexture(w, h, t) ==
    [tex |-> 0, framebuffer |-> TRUE, depth |-> TRUE, color |-> TRUE,
     width |-> Max(1, w), height |-> Max(1, h)]

\* create_offscreen_frame_resources(f, w, h) with the texture handle t
\* ImGui_ImplVulkan_AddTexture returns
CreateOffscreenFrame(w, h, t) ==
    [tex |-> t, framebuffer |-> TRUE, depth |-> TRUE, color |-> TRUE,
     width |-> Max(1, w), height |-> Max(1, h)]

EmptyBody == [passes |-> << >>, target |-> 0 - 1, tex |-> 0]

NoImage == 0 - 1

NoCaps == [currentExtent |-> << 0, 0 >>, minImageExtent |-> << 0, 0 >>,
           maxImageExtent |-> << 0, 0 >>]

FreshLog ==
    [ acquire |-> "none", image |-> NoImage, recorded |-> FALSE, submitted |-> 0,
      presented |-> FALSE, present_stale |-> FALSE, rebuilt |-> 0,
      off_rebuilt |-> {}, off_stale |-> FALSE, caps |-> NoCaps, error |-> FALSE,
      resized |-> FALSE ]

FenceCreatedUnsignaled == FALSE

\* state of a fence created by create_sync_and_cmd_buffers
\* (VK_FENCE_CREATE_SIGNALED_BIT)
FenceCreatedSignaled == TRUE

NextFrameIndexNoWrap(i) == i + 1

NextFrameIndex(i) == (i + 1) % k_frames_in_flight

UncappedCount(caps) == caps.minImageCount + 1

\* image count requested by create_swapchain
ImageCount(caps) ==
    LET n == caps.minImageCount + 1
    IN  IF caps.maxImageCount > 0 /\ n > caps.maxImageCount THEN caps.maxImageCount ELSE n

\* std::clamp(v, lo, hi)
Clamp(v, lo, hi) == IF v < lo THEN lo ELSE IF hi < v THEN hi ELSE v

WindowExtent(caps, z) == z

\* choose_extent(caps) while glfwGetFramebufferSize reports z
ChooseExtent(caps, z) ==
    IF caps.currentExtent[1] # UINT32_MAX
    THEN caps.currentExtent
    ELSE << Clamp(Max(1, z[1]), caps.minImageExtent[1], caps.maxImageExtent[1]),
            Clamp(Max(1, z[2]), caps.minImageExtent[2], caps.maxImageExtent[2]) >>

\* create_swapchain() when every call succeeds and vkGetSwapchainImagesKHR
\* reports out_count images: the sizes of swapchain_images, swapchain_views
\* and swapchain_framebuffers, and swapchain_extent
CreateSwapchain(caps, z, out_count) ==
    LET images == out_count
        views == images
        framebuffers == views
    IN  [live |-> TRUE, images |-> images, views |-> views,
         framebuffers |-> framebuffers, extent |-> ChooseExtent(caps, z)]

\* create_swapchain() when vkCreateSwapchainKHR succeeds and a later call fails:
\* images and views are sized, no framebuffer exists
CreateSwapchainFailed(caps, z, out_count) ==
    [CreateSwapchain(caps, z, out_count) EXCEPT !.framebuffers = 0]

\* the swapchain members after destroy_swapchain_resources has run
SwapchainGone ==
    [live |-> FALSE, images |-> 0, views |-> 0, framebuffers |-> 0,
     extent |-> << 0, 0 >>]

ImagesKept(sc) ==
    IF sc.framebuffers > 0 THEN [sc EXCEPT !.framebuffers = @ - 1]
    ELSE IF sc.views > 0 THEN [sc EXCEPT !.views = @ - 1]
    ELSE [SwapchainGone EXCEPT !.images = sc.images]

ViewsBeforeFramebuffers(sc) ==
    IF sc.views > 0 THEN [sc EXCEPT !.views = @ - 1]
    ELSE IF sc.framebuffers > 0 THEN [sc EXCEPT !.framebuffers = @ - 1]
    ELSE SwapchainGone

\* one statement of destroy_swapchain_resources applied to the surface sc:
\* destroy one framebuffer, else destroy one image view, else destroy the
\* swapchain and clear the image list, the format and the extent
DestroySwapchainStep(sc) ==
    IF sc.framebuffers > 0 THEN [sc EXCEPT !.framebuffers = @ - 1]
    ELSE IF sc.views > 0 THEN [sc EXCEPT !.views = @ - 1]
    ELSE SwapchainGone

---------------------------------------------------------------------------
\* DSEngine before its main runs

NoFormat == [format |-> "UNDEFINED", colorSpace |-> "NONE"]

FreshEngineLog ==
    [ acquire |-> "none", submitted |-> FALSE, presented |-> FALSE, rebuilt |-> FALSE ]

EngineNotRunning ==
    /\ ds_pc = "off"
    /\ g_SwapChainRebuild = FALSE
    /\ done = FALSE
    /\ win = << 0, 0 >>
    /\ minimized = FALSE
    /\ wd = [Width |-> 0, Height |-> 0, FrameIndex |-> 0]
    /\ ds_it = FreshEngineLog
    /\ avail_format = << >>
    /\ m_surface_format = NoFormat

---------------------------------------------------------------------------
InitWith(X) ==
    /\ pc = "loop"
    /\ frame_index = 0
    /\ fence = [s \in Slots |-> FenceCreatedSignaled]
    /\ cmd = [s \in Slots |-> "initial"]
    /\ queue = << >>
    /\ fb_size \in { z \in WinSizes : z[1] > 0 /\ z[2] > 0 }
    /\ \E caps \in LoopCaps(fb_size) : \E extra \in X :
          swapchain = CreateSwapchain(caps, fb_size, ImageCount(caps) + extra)
    /\ image_index = 0
    /\ framebuffer_resized = FALSE
    /\ should_close = FALSE
    /\ \E t \in [Slots -> TexIds] :
          /\ \A a, b \in Slots : a # b => t[a] # t[b]
          /\ offscreen = [s \in Slots |->
                CreateOffscreenFrame(InitOffscreenW, InitOffscreenH, t[s])]
    /\ ro_pos = << 0, 1 >>
    /\ cmd_body = [s \in Slots |-> EmptyBody]
    /\ px = << 0, 0 >>
    /\ ui_tex = 0
    /\ rc_ret = "none"
    /\ last_acquire = "none"
    /\ it = FreshLog
    /\ sem_wait = << >>
    /\ EngineNotRunning
    /\ handles = AllHandles

Init == InitWith({0})

---------------------------------------------------------------------------
\* Window system

\* what one glfwPollEvents / glfwWaitEvents call may deliver: a new framebuffer
\* size z (the resize callback sets framebuffer_resized) and a close request c
\* the test of the wait loop of recreate_swapchain
BothZero(z) == z[1] = 0 /\ z[2] = 0

ZeroArea(z) == z[1] = 0 \/ z[2] = 0

WindowEvents(z, c) ==
    /\ fb_size' = z
    /\ framebuffer_resized' = (framebuffer_resized \/ z # fb_size)
    /\ should_close' = (should_close \/ c)

---------------------------------------------------------------------------
\* Device

\* the device completes its oldest submission and signals that submission's fence
DeviceComplete ==
    /\ queue # << >>
    /\ fence' = [fence EXCEPT ![Head(queue).slot] = TRUE]
    /\ cmd' = [cmd EXCEPT ![Head(queue).slot] = "invalid"]
    /\ cmd_body' = [cmd_body EXCEPT ![Head(queue).slot] = EmptyBody]
    /\ queue' = Tail(queue)
    /\ UNCHANGED << dsvars, sem_wait, handles, ro_pos, pc, frame_index, swapchain, image_index, framebuffer_resized,
                    fb_size, should_close, offscreen, px, ui_tex, rc_ret,
                    last_acquire, it >>

---------------------------------------------------------------------------
\* run_loop

LoopIter ==
    /\ pc = "loop"
    /\ ~should_close
    /\ \E z \in WinSizes : \E c \in BOOLEAN :
          /\ WindowEvents(z, c)
          /\ it' = [FreshLog EXCEPT !.resized = (z # fb_size)]
    /\ pc' = "ui"
    /\ ui_tex' = 0
    /\ UNCHANGED << dsvars, sem_wait, handles, ro_pos, cmd_body, frame_index, fence, cmd, queue, swapchain, image_index,
                    offscreen, px, rc_ret, last_acquire >>

LoopExit ==
    /\ pc = "loop"
    /\ should_close
    /\ pc' = "exit_idle"
    /\ UNCHANGED << dsvars, sem_wait, handles, ro_pos, cmd_body, frame_index, fence, cmd, queue, swapchain, image_index,
                    framebuffer_resized, fb_size, should_close, offscreen, px,
                    ui_tex, rc_ret, last_acquire, it >>

ExitIdle ==
    /\ pc = "exit_idle"
    /\ DeviceIdle
    /\ pc' = "done"
    /\ UNCHANGED << dsvars, sem_wait, handles, ro_pos, cmd_body, frame_index, fence, cmd, queue, swapchain, image_index,
                    framebuffer_resized, fb_size, should_close, offscreen, px,
                    ui_tex, rc_ret, last_acquire, it >>

---------------------------------------------------------------------------
\* build_ui and recreate_offscreen

\* the slots the loops of destroy_offscreen and recreate_offscreen run over
OnlyCurrentSlot == {frame_index}

OffscreenLoop == Slots

\* first slot of the loop, and the slot after s (k_frames_in_flight: the loop ends)
LoopFirst ==
    CHOOSE s \in OffscreenLoop : \A t \in OffscreenLoop : s <= t

LoopNext(s) ==
    IF \E t \in OffscreenLoop : t > s
    THEN CHOOSE t \in OffscreenLoop : t > s /\ \A u \in OffscreenLoop : u > s => t <= u
    ELSE k_frames_in_flight

\* the order in which the body of the loop of destroy_offscreen releases
\* what an OffscreenFrame holds
FramebufferBeforeTexture == << "framebuffer", "tex", "depth", "color" >>

DestroyOrder == << "tex", "framebuffer", "depth", "color" >>

\* one release statement of destroy_offscreen applied to the frame f
Release(f, what) ==
    IF what = "tex" THEN [f EXCEPT !.tex = 0]
    ELSE IF what = "framebuffer" THEN [f EXCEPT !.framebuffer = FALSE]
    ELSE IF what = "depth" THEN [f EXCEPT !.depth = FALSE]
    ELSE [f EXCEPT !.color = FALSE]

\* what the vkDeviceWaitIdle of recreate_offscreen waits for
SkipOffscreenIdleWait == TRUE

OffscreenIdleWaitDone == DeviceIdle

BuildUi ==
    /\ pc = "ui"
    /\ \E aw \in PanelW : \E ah \in PanelH :
          LET w == Max(1, aw)
              h == Max(1, ah)
              stale == w # offscreen[frame_index].width \/ h # offscreen[frame_index].height
          IN  /\ px' = << w, h >>
              /\ pc' = IF stale THEN "ro_idle" ELSE "ui_image"
              /\ it' = [it EXCEPT !.off_stale = stale]
    /\ UNCHANGED << dsvars, sem_wait, handles, ro_pos, cmd_body, frame_index, fence, cmd, queue, swapchain, image_index,
                    framebuffer_resized, fb_size, should_close, offscreen, ui_tex,
                    rc_ret, last_acquire >>

RoIdle ==
    /\ pc = "ro_idle"
    /\ OffscreenIdleWaitDone
    /\ pc' = "ro_destroy"
    /\ ro_pos' = << LoopFirst, 1 >>
    /\ UNCHANGED << dsvars, sem_wait, handles, cmd_body, frame_index, fence, cmd, queue, swapchain, image_index,
                    framebuffer_resized, fb_size, should_close, offscreen, px,
                    ui_tex, rc_ret, last_acquire, it >>

\* one release statement of destroy_offscreen, called at the label here; the
\* caller continues at the label after
DestroyOffscreenStep(here, after) ==
    /\ pc = here
    /\ LET s == ro_pos[1]
           j == ro_pos[2]
           f == Release(offscreen[s], DestroyOrder[j])
           last == j = Len(DestroyOrder)
       IN  /\ offscreen' = [offscreen EXCEPT ![s] =
                                IF last THEN [f EXCEPT !.width = 1, !.height = 1] ELSE f]
           /\ ro_pos' = IF ~last THEN << s, j + 1 >>
                        ELSE IF LoopNext(s) < k_frames_in_flight THEN << LoopNext(s), 1 >>
                        ELSE << 0, 1 >>
           /\ pc' = IF last /\ LoopNext(s) = k_frames_in_flight THEN after ELSE here
    /\ UNCHANGED << dsvars, sem_wait, handles, cmd_body, frame_index, fence, cmd, queue, swapchain, image_index,
                    framebuffer_resized, fb_size, should_close, px, ui_tex,
                    rc_ret, last_acquire, it >>

RoDestroy == DestroyOffscreenStep("ro_destroy", "ro_create")

RoCreate ==
    /\ pc = "ro_create"
    /\ \E t \in [Slots -> TexIds] :
          /\ \A a, b \in Slots : a # b => t[a] # t[b]
          /\ \A a \in OffscreenLoop : \A b \in Slots \ OffscreenLoop : t[a] # offscreen[b].tex
          /\ offscreen' = [s \in Slots |->
                IF s \in OffscreenLoop
                THEN CreateOffscreenFrame(px[1], px[2], t[s])
                ELSE offscreen[s]]
    /\ it' = [it EXCEPT !.off_rebuilt = OffscreenLoop]
    /\ pc' = "ui_image"
    /\ UNCHANGED << dsvars, sem_wait, handles, ro_pos, cmd_body, frame_index, fence, cmd, queue, swapchain, image_index,
                    framebuffer_resized, fb_size, should_close, px, ui_tex,
                    rc_ret, last_acquire >>

\* the texture handle build_ui hands to ImGui::Image (0: no image is drawn)
OtherSlotTexture == offscreen[NextFrameIndex(frame_index)].tex

SampledTexture == offscreen[frame_index].tex

UiImage ==
    /\ pc = "ui_image"
    /\ ui_tex' = SampledTexture
    /\ px' = << 0, 0 >>
    /\ pc' = "df_wait"
    /\ UNCHANGED << dsvars, sem_wait, handles, ro_pos, cmd_body, frame_index, fence, cmd, queue, swapchain, image_index,
                    framebuffer_resized, fb_size, should_close, offscreen,
                    rc_ret, last_acquire, it >>

---------------------------------------------------------------------------
\* draw_frame

\* what vkWaitForFences waits for
NoFenceWait(s) == TRUE

FenceWaitDone(s) == fence[s]

WaitFence ==
    /\ pc = "df_wait"
    /\ FenceWaitDone(frame_index)
    /\ fence' = [fence EXCEPT ![frame_index] = FALSE]
    /\ pc' = "df_acquire"
    /\ UNCHANGED << dsvars, sem_wait, handles, ro_pos, cmd_body, frame_index, cmd, queue, swapchain, image_index,
                    framebuffer_resized, fb_size, should_close, offscreen, px,
                    ui_tex, rc_ret, last_acquire, it >>

WaitFenceError ==
    /\ pc = "df_wait"
    /\ pc' = "fatal"
    /\ it' = [it EXCEPT !.error = TRUE]
    /\ UNCHANGED << dsvars, sem_wait, handles, ro_pos, cmd_body, frame_index, fence, cmd, queue, swapchain, image_index,
                    framebuffer_resized, fb_size, should_close, offscreen, px,
                    ui_tex, rc_ret, last_acquire >>

\* where draw_frame continues after vkAcquireNextImageKHR returned r
FallThroughOnOutOfDate(r) ==
    IF r \in {"SUCCESS", "SUBOPTIMAL", "OUT_OF_DATE"} THEN "df_record" ELSE "fatal"

AfterAcquire(r) ==
    IF r = "OUT_OF_DATE" THEN "rc_size"
    ELSE IF r # "SUCCESS" /\ r # "SUBOPTIMAL" THEN "fatal"
    ELSE "df_record"

\* the presents of w that are left when image i can be acquired again: the
\* present of i has been executed, and so have the presents queued before it
AfterReacquire(w, i) ==
    LET at == { k \in 1 .. Len(w) : w[k].image = i }
    IN  IF at = {} THEN w
        ELSE SubSeq(w, (CHOOSE k \in at : \A j \in at : j <= k) + 1, Len(w))

\* vkAcquireNextImageKHR; with track the presentation engine's semaphore waits
\* are followed
AcquireWith(track) ==
    /\ pc = "df_acquire"
    /\ \E r \in AcquireResults :
          /\ last_acquire' = r
          /\ pc' = AfterAcquire(r)
          /\ rc_ret' = IF r = "OUT_OF_DATE" THEN "loop" ELSE rc_ret
          /\ IF r \in {"SUCCESS", "SUBOPTIMAL"}
             THEN \E i \in 0 .. (swapchain.images - 1) :
                     /\ image_index' = i
                     /\ sem_wait' = IF track THEN AfterReacquire(sem_wait, i)
                                    ELSE sem_wait
             ELSE image_index' = 0 /\ sem_wait' = sem_wait
          /\ it' = [it EXCEPT !.acquire = r, !.error = (r = "ERROR")]
    /\ UNCHANGED << dsvars, handles, ro_pos, cmd_body, frame_index, fence, cmd, queue, swapchain,
                    framebuffer_resized, fb_size, should_close, offscreen, px,
                    ui_tex >>

Acquire == AcquireWith(FALSE)

\* the passes draw_frame records into the command buffer, in order
UiPassFirst == << "swapchain", "offscreen" >>

RecordedPasses == << "offscreen", "swapchain" >>

Record ==
    /\ pc = "df_record"
    /\ cmd' = [cmd EXCEPT ![frame_index] = "executable"]
    /\ cmd_body' = [cmd_body EXCEPT ![frame_index] =
                        [passes |-> RecordedPasses, target |-> frame_index,
                         tex |-> ui_tex]]
    /\ it' = [it EXCEPT !.recorded = TRUE, !.image = image_index]
    /\ pc' = "df_submit"
    /\ UNCHANGED << dsvars, sem_wait, handles, ro_pos, frame_index, fence, queue, swapchain, image_index,
                    framebuffer_resized, fb_size, should_close, offscreen, px,
                    ui_tex, rc_ret, last_acquire >>

RecordError ==
    /\ pc = "df_record"
    /\ pc' = "fatal"
    /\ it' = [it EXCEPT !.error = TRUE]
    /\ UNCHANGED << dsvars, sem_wait, handles, ro_pos, cmd_body, frame_index, fence, cmd, queue, swapchain, image_index,
                    framebuffer_resized, fb_size, should_close, offscreen, px,
                    ui_tex, rc_ret, last_acquire >>

Submit ==
    /\ pc = "df_submit"
    /\ queue' = Append(queue, [slot |-> frame_index,
                               target |-> cmd_body[frame_index].target,
                               tex |-> cmd_body[frame_index].tex,
                               passes |-> cmd_body[frame_index].passes])
    /\ cmd' = [cmd EXCEPT ![frame_index] = "pending"]
    /\ it' = [it EXCEPT !.submitted = @ + 1]
    /\ pc' = "df_present"
    /\ UNCHANGED << dsvars, sem_wait, handles, ro_pos, cmd_body, frame_index, fence, swapchain, image_index,
                    framebuffer_resized, fb_size, should_close, offscreen, px,
                    ui_tex, rc_ret, last_acquire >>

SubmitError ==
    /\ pc = "df_submit"
    /\ pc' = "fatal"
    /\ it' = [it EXCEPT !.error = TRUE]
    /\ UNCHANGED << dsvars, sem_wait, handles, ro_pos, cmd_body, frame_index, fence, cmd, queue, swapchain, image_index,
                    framebuffer_resized, fb_size, should_close, offscreen, px,
                    ui_tex, rc_ret, last_acquire >>

RebuildIgnoresResize(r) ==
    IF r = "OUT_OF_DATE" \/ r = "SUBOPTIMAL" THEN "rc_size"
    ELSE IF r # "SUCCESS" THEN "fatal"
    ELSE "df_advance"

\* where draw_frame continues after vkQueuePresentKHR returned r
DeferredRebuild(r) ==
    IF r = "ERROR" /\ ~framebuffer_resized THEN "fatal" ELSE "df_advance"

AfterPresent(r) ==
    IF r = "OUT_OF_DATE" \/ r = "SUBOPTIMAL" \/ framebuffer_resized THEN "rc_size"
    ELSE IF r # "SUCCESS" THEN "fatal"
    ELSE "df_advance"

\* vkQueuePresentKHR; with track the wait on frames[frame_index].render_complete
\* that the present queues is followed until the presentation engine executes it
PresentWith(track) ==
    /\ pc = "df_present"
    /\ sem_wait' = IF track
                   THEN Append(sem_wait, [slot |-> frame_index, image |-> image_index])
                   ELSE sem_wait
    /\ \E r \in PresentResults :
          /\ pc' = AfterPresent(r)
          /\ rc_ret' = IF AfterPresent(r) = "rc_size" THEN "df_advance" ELSE rc_ret
          /\ it' = [it EXCEPT !.presented = TRUE,
                              !.present_stale = (r \in {"OUT_OF_DATE", "SUBOPTIMAL"}
                                                 \/ framebuffer_resized),
                              !.error = (r = "ERROR")]
    /\ UNCHANGED << dsvars, handles, ro_pos, cmd_body, frame_index, fence, cmd, queue, swapchain, image_index,
                    framebuffer_resized, fb_size, should_close, offscreen, px,
                    ui_tex, last_acquire >>

Present == PresentWith(FALSE)

Advance ==
    /\ pc = "df_advance"
    /\ frame_index' = NextFrameIndex(frame_index)
    /\ image_index' = 0
    /\ pc' = "loop"
    /\ UNCHANGED << dsvars, sem_wait, handles, ro_pos, cmd_body, fence, cmd, queue, swapchain,
                    framebuffer_resized, fb_size, should_close, offscreen, px,
                    ui_tex, rc_ret, last_acquire, it >>

---------------------------------------------------------------------------
\* recreate_swapchain

RcWaitEvents ==
    /\ pc = "rc_size"
    /\ ZeroArea(fb_size)
    /\ \E z \in WinSizes : \E c \in BOOLEAN : WindowEvents(z, c)
    /\ UNCHANGED << dsvars, sem_wait, handles, ro_pos, cmd_body, pc, frame_index, fence, cmd, queue, swapchain, image_index,
                    offscreen, px, ui_tex, rc_ret, last_acquire, it >>

RcSizeOk ==
    /\ pc = "rc_size"
    /\ ~ZeroArea(fb_size)
    /\ pc' = "rc_idle"
    /\ UNCHANGED << dsvars, sem_wait, handles, ro_pos, cmd_body, frame_index, fence, cmd, queue, swapchain, image_index,
                    framebuffer_resized, fb_size, should_close, offscreen, px,
                    ui_tex, rc_ret, last_acquire, it >>

\* what the vkDeviceWaitIdle of recreate_swapchain waits for
NoIdleWait == TRUE

SwapchainIdleWaitDone == DeviceIdle

RcIdle ==
    /\ pc = "rc_idle"
    /\ SwapchainIdleWaitDone
    /\ pc' = "rc_destroy"
    /\ UNCHANGED << dsvars, sem_wait, handles, ro_pos, cmd_body, frame_index, fence, cmd, queue, swapchain, image_index,
                    framebuffer_resized, fb_size, should_close, offscreen, px,
                    ui_tex, rc_ret, last_acquire, it >>

\* one statement of destroy_swapchain_resources, called at the label here;
\* the caller continues at the label after
DestroySwapchainAt(here, after) ==
    /\ pc = here
    /\ swapchain' = DestroySwapchainStep(swapchain)
    /\ pc' = IF swapchain.framebuffers = 0 /\ swapchain.views = 0 THEN after ELSE here
    /\ UNCHANGED << dsvars, sem_wait, handles, ro_pos, cmd_body, frame_index, fence, cmd, queue, image_index,
                    framebuffer_resized, fb_size, should_close, offscreen, px,
                    ui_tex, rc_ret, last_acquire, it >>

RcDestroyWithOffscreen ==
    /\ pc = "rc_destroy"
    /\ swapchain' = DestroySwapchainStep(swapchain)
    /\ offscreen' = [s \in Slots |-> NullOffscreen]
    /\ pc' = IF swapchain.framebuffers = 0 /\ swapchain.views = 0
             THEN "rc_create" ELSE "rc_destroy"
    /\ UNCHANGED << dsvars, sem_wait, handles, ro_pos, cmd_body, frame_index, fence, cmd, queue, image_index,
                    framebuffer_resized, fb_size, should_close, px,
                    ui_tex, rc_ret, last_acquire, it >>

RcDestroy == DestroySwapchainAt("rc_destroy", "rc_create")

\* create_swapchain and the rest of recreate_swapchain, for a surface whose
\* capabilities are in C and a device that returns up to X images more than
\* requested
RcCreateWith(C, X) ==
    /\ pc = "rc_create"
    /\ \E caps \in C : \E extra \in X :
          /\ swapchain' = CreateSwapchain(caps, fb_size, ImageCount(caps) + extra)
          /\ it' = [it EXCEPT !.rebuilt = @ + 1,
                              !.caps = [currentExtent |-> caps.currentExtent,
                                        minImageExtent |-> caps.minImageExtent,
                                        maxImageExtent |-> caps.maxImageExtent]]
    /\ framebuffer_resized' = FALSE
    /\ pc' = rc_ret
    /\ rc_ret' = "none"
    /\ UNCHANGED << dsvars, sem_wait, handles, ro_pos, cmd_body, frame_index, fence, cmd, queue, image_index,
                    fb_size, should_close, offscreen, px,
                    ui_tex, last_acquire >>

\* a vk_check inside create_swapchain throws
RcCreateErrorWith(C, X) ==
    /\ pc = "rc_create"
    /\ \E caps \in C : \E extra \in X : \E created \in BOOLEAN :
          swapchain' = IF created
                       THEN CreateSwapchainFailed(caps, fb_size, ImageCount(caps) + extra)
                       ELSE swapchain
    /\ pc' = "fatal"
    /\ it' = [it EXCEPT !.error = TRUE]
    /\ rc_ret' = "none"
    /\ UNCHANGED << dsvars, sem_wait, handles, ro_pos, cmd_body, frame_index, fence, cmd, queue, image_index,
                    framebuffer_resized, fb_size, should_close, offscreen, px,
                    ui_tex, last_acquire >>

RcCreate == RcCreateWith(LoopCaps(fb_size), {0})

RcCreateError == RcCreateErrorWith(LoopCaps(fb_size), {0})

---------------------------------------------------------------------------
\* shutdown_all, run by the destructor after run_loop returned or threw (the
\* locals of the loop and the log of its last iteration are gone by then)

SdIdle ==
    /\ pc \in {"done", "fatal"}
    /\ "device" \in handles => DeviceIdle
    /\ pc' = "sd_cube"
    /\ ro_pos' = << LoopFirst, 1 >>
    /\ image_index' = 0
    /\ px' = << 0, 0 >>
    /\ ui_tex' = 0
    /\ last_acquire' = "none"
    /\ it' = FreshLog
    /\ UNCHANGED << dsvars, sem_wait, handles, cmd_body, frame_index, fence, cmd, queue, swapchain,
                    framebuffer_resized, fb_size, should_close, offscreen, rc_ret >>

DeviceBeforeAllocator ==
    << [at |-> "sd_cube", guard |-> {"device", "allocator"}, frees |-> {"cube"},
        next |-> "sd_offscreen", skip |-> "sd_imgui"],
       [at |-> "sd_sync", guard |-> {"device"}, frees |-> {"sync"},
        next |-> "sd_cmd_pool", skip |-> "sd_allocator"],
       [at |-> "sd_cmd_pool", guard |-> {"device"}, frees |-> {"cmd_pool"},
        next |-> "sd_swapchain", skip |-> "sd_allocator"],
       [at |-> "sd_allocator", guard |-> {"device"}, frees |-> {"device"},
        next |-> "sd_surface", skip |-> "sd_surface"],
       [at |-> "sd_surface", guard |-> {"surface", "instance"}, frees |-> {"surface"},
        next |-> "sd_device", skip |-> "sd_device"],
       [at |-> "sd_device", guard |-> {"allocator"}, frees |-> {"allocator"},
        next |-> "sd_instance", skip |-> "sd_instance"],
       [at |-> "sd_instance", guard |-> {"instance"}, frees |-> {"instance"},
        next |-> "sd_window", skip |-> "sd_window"],
       [at |-> "sd_window", guard |-> {"window"}, frees |-> {"window"},
        next |-> "terminated", skip |-> "terminated"] >>

\* the statements of shutdown_all that release entries of handles: at the
\* label at, when the handles in guard exist, the handles in frees are
\* released and shutdown_all continues at next, and otherwise at skip
ShutdownPlan ==
    << [at |-> "sd_cube", guard |-> {"device", "allocator"}, frees |-> {"cube"},
        next |-> "sd_offscreen", skip |-> "sd_imgui"],
       [at |-> "sd_sync", guard |-> {"device"}, frees |-> {"sync"},
        next |-> "sd_cmd_pool", skip |-> "sd_allocator"],
       [at |-> "sd_cmd_pool", guard |-> {"device"}, frees |-> {"cmd_pool"},
        next |-> "sd_swapchain", skip |-> "sd_allocator"],
       [at |-> "sd_allocator", guard |-> {"allocator"}, frees |-> {"allocator"},
        next |-> "sd_surface", skip |-> "sd_surface"],
       [at |-> "sd_surface", guard |-> {"surface", "instance"}, frees |-> {"surface"},
        next |-> "sd_device", skip |-> "sd_device"],
       [at |-> "sd_device", guard |-> {"device"}, frees |-> {"device"},
        next |-> "sd_instance", skip |-> "sd_instance"],
       [at |-> "sd_instance", guard |-> {"instance"}, frees |-> {"instance"},
        next |-> "sd_window", skip |-> "sd_window"],
       [at |-> "sd_window", guard |-> {"window"}, frees |-> {"window"},
        next |-> "terminated", skip |-> "terminated"] >>

SdRelease ==
    /\ \E k \in DOMAIN ShutdownPlan :
          LET p == ShutdownPlan[k]
          IN  /\ pc = p.at
              /\ handles' = IF p.guard \subseteq handles THEN handles \ p.frees ELSE handles
              /\ pc' = IF p.guard \subseteq handles THEN p.next ELSE p.skip
    /\ UNCHANGED << dsvars, sem_wait, ro_pos, cmd_body, frame_index, fence, cmd, queue, swapchain, image_index,
                    framebuffer_resized, fb_size, should_close, offscreen, px,
                    ui_tex, rc_ret, last_acquire, it >>

SdOffscreen == DestroyOffscreenStep("sd_offscreen", "sd_imgui")

\* the condition under which shutdown_all calls destroy_imgui
ImguiShutdownCalled == "device" \in handles

\* destroy_imgui: the backend shutdown calls and the descriptor pool; without
\* an initialised backend the calls are undefined (they assert or read a
\* null context), so the process may crash or go on
SdImgui ==
    /\ pc = "sd_imgui"
    /\ IF ~ImguiShutdownCalled
       THEN pc' = "sd_sync" /\ handles' = handles
       ELSE IF "imgui" \in handles
       THEN pc' = "sd_sync" /\ handles' = handles \ {"imgui", "imgui_pool"}
       ELSE /\ pc' \in {"sd_sync", "crashed"}
            /\ handles' = handles \ {"imgui_pool"}
    /\ UNCHANGED << dsvars, sem_wait, ro_pos, cmd_body, frame_index, fence, cmd, queue, swapchain, image_index,
                    framebuffer_resized, fb_size, should_close, offscreen, px,
                    ui_tex, rc_ret, last_acquire, it >>

SdSwapchain == DestroySwapchainAt("sd_swapchain", "sd_allocator")

---------------------------------------------------------------------------
Next ==
    \/ DeviceComplete
    \/ LoopIter
    \/ LoopExit
    \/ ExitIdle
    \/ BuildUi
    \/ RoIdle
    \/ RoDestroy
    \/ RoCreate
    \/ UiImage
    \/ WaitFence
    \/ WaitFenceError
    \/ Acquire
    \/ Record
    \/ RecordError
    \/ Submit
    \/ SubmitError
    \/ Present
    \/ Advance
    \/ RcWaitEvents
    \/ RcSizeOk
    \/ RcIdle
    \/ RcDestroy
    \/ RcCreate
    \/ RcCreateError
    \/ SdIdle
    \/ SdRelease
    \/ SdOffscreen
    \/ SdImgui
    \/ SdSwapchain

Spec == Init /\ [][Next]_vars

---------------------------------------------------------------------------
\* The presentation surface on its own: recreate_swapchain and shutdown_all
\* called with the device idle, for every capability set and window size

InitSurface ==
    /\ pc = "surface"
    /\ frame_index = 0
    /\ fence = [s \in Slots |-> FenceCreatedSignaled]
    /\ cmd = [s \in Slots |-> "initial"]
    /\ queue = << >>
    /\ fb_size \in { z \in WinSizes : z[1] > 0 /\ z[2] > 0 }
    /\ \E caps \in CapsSet : \E extra \in 0 .. ExtraImages :
          swapchain = CreateSwapchain(caps, fb_size, ImageCount(caps) + extra)
    /\ image_index = 0
    /\ framebuffer_resized = FALSE
    /\ should_close = FALSE
    /\ \E t \in [Slots -> TexIds] :
          /\ \A a, b \in Slots : a # b => t[a] # t[b]
          /\ offscreen = [s \in Slots |->
                CreateOffscreenFrame(InitOffscreenW, InitOffscreenH, t[s])]
    /\ ro_pos = << 0, 1 >>
    /\ cmd_body = [s \in Slots |-> EmptyBody]
    /\ px = << 0, 0 >>
    /\ ui_tex = 0
    /\ rc_ret = "none"
    /\ last_acquire = "none"
    /\ it = FreshLog
    /\ sem_wait = << >>
    /\ EngineNotRunning
    /\ handles = AllHandles

\* the window delivers events and the surface is found stale: recreate_swapchain
SurfaceStale ==
    /\ pc = "surface"
    /\ ~should_close
    /\ \E z \in WinSizes : \E c \in BOOLEAN : WindowEvents(z, c)
    /\ it' = FreshLog
    /\ pc' = "rc_size"
    /\ rc_ret' = "surface"
    /\ UNCHANGED << dsvars, sem_wait, handles, ro_pos, cmd_body, frame_index, fence, cmd, queue, swapchain, image_index,
                    offscreen, px, ui_tex, last_acquire >>

\* the window was closed: run_loop returns
SurfaceClose ==
    /\ pc = "surface"
    /\ should_close
    /\ pc' = "done"
    /\ UNCHANGED << dsvars, sem_wait, handles, ro_pos, cmd_body, frame_index, fence, cmd, queue, swapchain, image_index,
                    framebuffer_resized, fb_size, should_close, offscreen, px,
                    ui_tex, rc_ret, last_acquire, it >>

RcCreateAny == RcCreateWith(CapsSet, 0 .. ExtraImages)

RcCreateErrorAny == RcCreateErrorWith(CapsSet, 0 .. ExtraImages)

NextSurface ==
    \/ SurfaceStale
    \/ SurfaceClose
    \/ RcWaitEvents
    \/ RcSizeOk
    \/ RcIdle
    \/ RcDestroy
    \/ RcCreateAny
    \/ RcCreateErrorAny
    \/ SdIdle
    \/ SdRelease
    \/ SdOffscreen
    \/ SdImgui
    \/ SdSwapchain

SpecSurface == InitSurface /\ [][NextSurface]_vars

---------------------------------------------------------------------------
\* init_all on its own, followed by the destructor when a step throws: every
\* capability set, every window size and every image count the device may
\* report, zero included

\* a VulkanMvp whose init_all has not run
MvpConstructed ==
    /\ pc = "init"
    /\ handles = {}
    /\ frame_index = 0
    /\ fence = [s \in Slots |-> FALSE]
    /\ cmd = [s \in Slots |-> "initial"]
    /\ queue = << >>
    /\ fb_size \in WinSizes
    /\ swapchain = SwapchainGone
    /\ image_index = 0
    /\ framebuffer_resized = FALSE
    /\ should_close = FALSE
    /\ offscreen = [s \in Slots |-> NullOffscreen]
    /\ ro_pos = << 0, 1 >>
    /\ cmd_body = [s \in Slots |-> EmptyBody]
    /\ px = << 0, 0 >>
    /\ ui_tex = 0
    /\ rc_ret = "none"
    /\ last_acquire = "none"
    /\ it = FreshLog
    /\ sem_wait = << >>

InitStart == MvpConstructed /\ EngineNotRunning

\* what the step of init_all named step has created
Created(step) ==
    IF step = "swapchain" THEN swapchain.live
    ELSE IF step = "offscreen" THEN \A s \in Slots : OffscreenLive(s)
    ELSE step \in handles

\* index in InitOrder of the step init_all runs next (0: all have run)
NextInitStep ==
    IF \A k \in DOMAIN InitOrder : Created(InitOrder[k]) THEN 0
    ELSE CHOOSE k \in DOMAIN InitOrder :
            /\ ~Created(InitOrder[k])
            /\ \A j \in 1 .. (k - 1) : Created(InitOrder[j])

\* the image counts vkGetSwapchainImagesKHR may report for a request of n
ReportedCounts(n) == {0} \cup (n .. (n + ExtraImages))

\* one step of init_all succeeds
InitStepOk ==
    /\ pc = "init"
    /\ NextInitStep # 0
    /\ LET step == InitOrder[NextInitStep]
       IN  /\ IF step = "swapchain"
              THEN \E caps \in CapsSet : \E out \in ReportedCounts(ImageCount(caps)) :
                      /\ swapchain' = CreateSwapchain(caps, fb_size, out)
                      /\ it' = [caps |-> caps, requested |-> ImageCount(caps)] @@ it
              ELSE UNCHANGED << swapchain, it >>
           /\ IF step = "offscreen"
              THEN \E t \in [Slots -> TexIds] :
                      /\ \A a, b \in Slots : a # b => t[a] # t[b]
                      /\ offscreen' = [s \in Slots |->
                            CreateOffscreenFrame(InitOffscreenW, InitOffscreenH, t[s])]
              ELSE UNCHANGED offscreen
           /\ fence' = IF step = "sync" THEN [s \in Slots |-> FenceCreatedSignaled] ELSE fence
           /\ handles' = IF step \in AllHandles THEN handles \cup {step} ELSE handles
           /\ pc' = IF NextInitStep = Len(InitOrder) THEN "loop" ELSE "init"
    /\ UNCHANGED << dsvars, sem_wait, ro_pos, cmd_body, frame_index, cmd, queue, image_index,
                    framebuffer_resized, fb_size, should_close, px,
                    ui_tex, rc_ret, last_acquire >>

\* one step of init_all throws; create_swapchain may have created the
\* swapchain, its images and views by then
InitStepFail ==
    /\ pc = "init"
    /\ NextInitStep # 0
    /\ IF InitOrder[NextInitStep] = "swapchain"
       THEN \E caps \in CapsSet : \E out \in ReportedCounts(ImageCount(caps)) :
               \E created \in BOOLEAN :
                  swapchain' = IF created
                               THEN CreateSwapchainFailed(caps, fb_size, out)
                               ELSE swapchain
       ELSE UNCHANGED swapchain
    /\ it' = [it EXCEPT !.error = TRUE]
    /\ pc' = "fatal"
    /\ UNCHANGED << dsvars, sem_wait, handles, ro_pos, cmd_body, frame_index, fence, cmd, queue, image_index,
                    framebuffer_resized, fb_size, should_close, offscreen, px,
                    ui_tex, rc_ret, last_acquire >>

NextInit ==
    \/ InitStepOk
    \/ InitStepFail
    \/ SdIdle
    \/ SdRelease
    \/ SdOffscreen
    \/ SdImgui
    \/ SdSwapchain

SpecInit == InitStart /\ [][NextInit]_vars

---------------------------------------------------------------------------
\* The frame loop with its scheduling: the thread of run_loop keeps taking its
\* next step whenever it has one, and the device completes every submission.

\* a step of the thread that runs run_loop (and then the destructor)
ThreadStep ==
    \/ LoopIter
    \/ LoopExit
    \/ ExitIdle
    \/ BuildUi
    \/ RoIdle
    \/ RoDestroy
    \/ RoCreate
    \/ UiImage
    \/ WaitFence
    \/ WaitFenceError
    \/ Acquire
    \/ Record
    \/ RecordError
    \/ Submit
    \/ SubmitError
    \/ Present
    \/ Advance
    \/ RcWaitEvents
    \/ RcSizeOk
    \/ RcIdle
    \/ RcDestroy
    \/ RcCreate
    \/ RcCreateError
    \/ SdIdle
    \/ SdRelease
    \/ SdOffscreen
    \/ SdImgui
    \/ SdSwapchain

NextLive == ThreadStep \/ DeviceComplete

SpecLive ==
    Init /\ [][NextLive]_vars /\ WF_vars(ThreadStep) /\ WF_vars(DeviceComplete)

\* The same loop while the window is not resized, no acquisition or
\* presentation is stale and no Vulkan call fails
SteadyLoopIter == LoopIter /\ fb_size' = fb_size

SteadyAcquire == Acquire /\ last_acquire' = "SUCCESS"

SteadyPresent == Present /\ pc' = "df_advance"

SteadyStep ==
    \/ SteadyLoopIter
    \/ LoopExit
    \/ ExitIdle
    \/ BuildUi
    \/ RoIdle
    \/ RoDestroy
    \/ RoCreate
    \/ UiImage
    \/ WaitFence
    \/ SteadyAcquire
    \/ Record
    \/ Submit
    \/ SteadyPresent
    \/ Advance

NextSteady == SteadyStep \/ DeviceComplete

SpecSteady ==
    Init /\ [][NextSteady]_vars /\ WF_vars(SteadyStep) /\ WF_vars(DeviceComplete)

---------------------------------------------------------------------------
\* The steady frame loop together with the presentation engine: a present
\* queued by vkQueuePresentKHR waits on frames[s].render_complete at a time of
\* the engine's choosing once the semaphore is signalled, in the order of the
\* presents and at the latest before its image is acquired again; the device
\* may have created more images than requested

SemAcquire == AcquireWith(TRUE) /\ last_acquire' = "SUCCESS"

SemPresent == PresentWith(TRUE) /\ pc' = "df_advance"

\* the presentation engine executes the semaphore wait of the oldest queued
\* present, whose semaphore the completed submission has signalled
PresentEngineWait ==
    /\ sem_wait # << >>
    /\ Pending(Head(sem_wait).slot) = 0
    /\ sem_wait' = Tail(sem_wait)
    /\ UNCHANGED << dsvars, handles, ro_pos, cmd_body, pc, frame_index, fence, cmd, queue, swapchain,
                    image_index, framebuffer_resized, fb_size, should_close, offscreen,
                    px, ui_tex, rc_ret, last_acquire, it >>

NextSemaphore ==
    \/ SteadyLoopIter
    \/ LoopExit
    \/ ExitIdle
    \/ BuildUi
    \/ RoIdle
    \/ RoDestroy
    \/ RoCreate
    \/ UiImage
    \/ WaitFence
    \/ SemAcquire
    \/ Record
    \/ Submit
    \/ SemPresent
    \/ Advance
    \/ DeviceComplete
    \/ PresentEngineWait

InitSemaphore == InitWith(0 .. ExtraImages)

SpecSemaphore == InitSemaphore /\ [][NextSemaphore]_vars

---------------------------------------------------------------------------
\* DSEngine (src/engine/src/engine.hpp): surface-format selection

request_surface_image_format ==
    << "B8G8R8A8_UNORM", "R8G8B8A8_UNORM", "B8G8R8_UNORM", "R8G8B8_UNORM" >>

request_surface_color_space == "SRGB_NONLINEAR"

\* the surface formats a device may offer
SurfaceFormats ==
    [ format : { request_surface_image_format[k] : k \in 1 .. 4 }
                 \cup {"UNDEFINED", "R16G16B16A16_SFLOAT"},
      colorSpace : {"SRGB_NONLINEAR", "EXTENDED_SRGB_LINEAR"} ]

OfferedLists == UNION { [1 .. n -> SurfaceFormats] : n \in 1 .. MaxFormats }

\* the two nested loops over the requested and the offered formats, from
\* position (request_i, avail_i) on, m being m_surface_format so far
RECURSIVE SearchFormats(_, _, _, _)
SearchFormats(avail, request_i, avail_i, m) ==
    IF request_i > Len(request_surface_image_format) THEN m
    ELSE IF avail_i > Len(avail) THEN SearchFormats(avail, request_i + 1, 1, m)
    ELSE SearchFormats(avail, request_i, avail_i + 1,
            IF /\ avail[avail_i].format = request_surface_image_format[request_i]
               /\ avail[avail_i].colorSpace = request_surface_color_space
            THEN avail[avail_i] ELSE m)

\* m_surface_format after setup_vulkan_window_select_surface_format; the
\* assignment after the loops overwrites what the loops found
SelectSurfaceFormat(avail, m) ==
    IF Len(avail) = 1
    THEN IF avail[1].format = "UNDEFINED"
         THEN [format |-> request_surface_image_format[1],
               colorSpace |-> request_surface_color_space]
         ELSE avail[1]
    ELSE LET found == SearchFormats(avail, 1, 1, m)
         IN  [found EXCEPT !.format = avail[1].format,
                           !.colorSpace = avail[1].colorSpace]

InitFormat ==
    /\ MvpConstructed
    /\ fb_size = << 0, 0 >>
    /\ ds_pc = "select"
    /\ g_SwapChainRebuild = FALSE
    /\ done = FALSE
    /\ win = << 0, 0 >>
    /\ minimized = FALSE
    /\ wd = [Width |-> 0, Height |-> 0, FrameIndex |-> 0]
    /\ ds_it = FreshEngineLog
    /\ avail_format \in OfferedLists
    /\ m_surface_format = NoFormat

mvpvars == << sem_wait, handles, pc, frame_index, fence, cmd, cmd_body, queue, swapchain,
              image_index, framebuffer_resized, fb_size, should_close, offscreen, ro_pos,
              px, ui_tex, rc_ret, last_acquire, it >>

SelectFormat ==
    /\ ds_pc = "select"
    /\ m_surface_format' = SelectSurfaceFormat(avail_format, m_surface_format)
    /\ ds_pc' = "selected"
    /\ UNCHANGED << mvpvars, g_SwapChainRebuild, done, win, minimized, wd, ds_it,
                    avail_format >>

NextFormat == SelectFormat

SpecFormat == InitFormat /\ [][NextFormat]_vars

---------------------------------------------------------------------------
\* DSEngine: main loop.  vk_check aborts the process on an error result; the
\* device is not followed, the steps are the calls main issues.

g_MinImageCount == 2

InitEngine ==
    /\ MvpConstructed
    /\ fb_size = << 0, 0 >>
    /\ ds_pc = "top"
    /\ g_SwapChainRebuild = FALSE
    /\ done = FALSE
    /\ win \in { z \in WinSizes : z[1] > 0 /\ z[2] > 0 }
    /\ minimized = FALSE
    /\ wd = [Width |-> win[1], Height |-> win[2], FrameIndex |-> 0]
    /\ ds_it = FreshEngineLog
    /\ avail_format = << >>
    /\ m_surface_format = NoFormat

\* the SDL_PollEvent loop and the minimized test of one iteration
DsPollEvents ==
    /\ ds_pc = "top"
    /\ ~done
    /\ \E z \in WinSizes : \E m \in BOOLEAN : \E q \in BOOLEAN :
          /\ win' = z
          /\ minimized' = m
          /\ done' = q
          /\ ds_pc' = IF m THEN "top" ELSE "resize"
    /\ ds_it' = FreshEngineLog
    /\ UNCHANGED << mvpvars, g_SwapChainRebuild, wd, avail_format, m_surface_format >>

DsExit ==
    /\ ds_pc = "top"
    /\ done
    /\ ds_pc' = "exited"
    /\ UNCHANGED << mvpvars, g_SwapChainRebuild, done, win, minimized, wd, ds_it,
                    avail_format, m_surface_format >>

\* the condition under which main rebuilds the swapchain
RebuildNeeded ==
    /\ win[1] > 0
    /\ win[2] > 0
    /\ \/ g_SwapChainRebuild
       \/ wd.Width # win[1]
       \/ wd.Height # win[2]

DsResize ==
    /\ ds_pc = "resize"
    /\ IF RebuildNeeded
       THEN /\ wd' = [Width |-> win[1], Height |-> win[2], FrameIndex |-> 0]
            /\ g_SwapChainRebuild' = FALSE
            /\ ds_it' = [ds_it EXCEPT !.rebuilt = TRUE]
       ELSE UNCHANGED << wd, g_SwapChainRebuild, ds_it >>
    /\ ds_pc' = "render"
    /\ UNCHANGED << mvpvars, done, win, minimized, avail_format, m_surface_format >>

\* is_minimized: the display size ImGui took from the window size
is_minimized == win[1] <= 0 \/ win[2] <= 0

DsSkipFrame ==
    /\ ds_pc = "render"
    /\ is_minimized
    /\ ds_pc' = "top"
    /\ UNCHANGED << mvpvars, g_SwapChainRebuild, done, win, minimized, wd, ds_it,
                    avail_format, m_surface_format >>

\* FrameRender up to the tests of the acquisition result
DsAcquire ==
    /\ ds_pc = "render"
    /\ ~is_minimized
    /\ \E r \in AcquireResults : \E i \in 0 .. (g_MinImageCount - 1) :
          /\ wd' = IF r \in {"SUCCESS", "SUBOPTIMAL"}
                   THEN [wd EXCEPT !.FrameIndex = i] ELSE wd
          /\ g_SwapChainRebuild' = (g_SwapChainRebuild \/ r \in {"OUT_OF_DATE", "SUBOPTIMAL"})
          /\ ds_pc' = IF r = "OUT_OF_DATE" THEN "present"
                      ELSE IF r = "ERROR" THEN "aborted"
                      ELSE "submit"
          /\ ds_it' = [ds_it EXCEPT !.acquire = r]
    /\ UNCHANGED << mvpvars, done, win, minimized, avail_format, m_surface_format >>

\* the rest of FrameRender: fence wait, recording, vkQueueSubmit
DsSubmit ==
    /\ ds_pc = "submit"
    /\ ds_it' = [ds_it EXCEPT !.submitted = TRUE]
    /\ ds_pc' = "present"
    /\ UNCHANGED << mvpvars, g_SwapChainRebuild, done, win, minimized, wd,
                    avail_format, m_surface_format >>

\* a vk_check of the rest of FrameRender aborts
DsSubmitError ==
    /\ ds_pc = "submit"
    /\ ds_pc' = "aborted"
    /\ UNCHANGED << mvpvars, g_SwapChainRebuild, done, win, minimized, wd, ds_it,
                    avail_format, m_surface_format >>

PresentNeverSkipped == FALSE

\* the condition under which FramePresent returns without presenting
PresentSkipped == g_SwapChainRebuild

DsPresent ==
    /\ ds_pc = "present"
    /\ IF PresentSkipped
       THEN /\ ds_pc' = "top"
            /\ UNCHANGED << g_SwapChainRebuild, ds_it >>
       ELSE \E r \in PresentResults :
               /\ ds_it' = [ds_it EXCEPT !.presented = TRUE]
               /\ g_SwapChainRebuild' =
                     (g_SwapChainRebuild \/ r \in {"OUT_OF_DATE", "SUBOPTIMAL"})
               /\ ds_pc' = IF r = "ERROR" THEN "aborted" ELSE "top"
    /\ UNCHANGED << mvpvars, done, win, minimized, wd, avail_format, m_surface_format >>

NextEngine ==
    \/ DsPollEvents
    \/ DsExit
    \/ DsResize
    \/ DsSkipFrame
    \/ DsAcquire
    \/ DsSubmit
    \/ DsSubmitError
    \/ DsPresent

SpecEngine == InitEngine /\ [][NextEngine]_vars

---------------------------------------------------------------------------
\* Properties

InRecreateSwapchain == pc \in {"rc_size", "rc_idle", "rc_destroy", "rc_create"}

InRecreateOffscreen == pc \in {"ro_idle", "ro_destroy", "ro_create"}

\* the iteration logged in it has ended
InShutdown ==
    pc \in { ShutdownPlan[k].at : k \in DOMAIN ShutdownPlan }
            \cup {"sd_offscreen", "sd_imgui", "sd_swapchain", "terminated", "crashed"}

IterationEnded == pc \in {"loop", "exit_idle", "done"}

\* C1: the number of queue submissions the device has not completed never
\* exceeds k_frames_in_flight.
BackpressureBound == Len(queue) <= k_frames_in_flight

BackpressureFull == Len(queue) = k_frames_in_flight /\ pc = "df_wait"

\* C2: in the iteration after one whose acquisition reported out-of-date, once
\* the device has completed everything submitted to it, the fence wait of the
\* slot can return.
NextIterationPassesFenceWait ==
    (pc = "df_wait" /\ last_acquire = "OUT_OF_DATE" /\ DeviceIdle)
        => FenceWaitDone(frame_index)

\* C3: an iteration whose acquisition reported out-of-date uses no image
\* index, records nothing, submits nothing, presents nothing, and has rebuilt
\* the surface by the time it ends (a rebuild that fails is fatal and ends the
\* loop instead).
StaleAcquireSkipsFrame ==
    it.acquire = "OUT_OF_DATE" =>
        /\ ~it.recorded
        /\ it.image = NoImage
        /\ it.submitted = 0
        /\ ~it.presented
        /\ (InRecreateSwapchain \/ IterationEnded \/ pc = "fatal")
        /\ (IterationEnded => it.rebuilt = 1 /\ swapchain.live)

StaleAcquireRebuilt ==
    pc = "loop" /\ it.acquire = "OUT_OF_DATE" /\ it.rebuilt = 1 /\ ~fence[frame_index]

\* C4 as claimed: every iteration that completes, the ones that skip
\* presentation included, advances frame_index by one modulo k_frames_in_flight.
FrameIndexAdvancesEveryIteration ==
    [][(pc # "loop" /\ pc' = "loop")
          => frame_index' = (frame_index + 1) % k_frames_in_flight]_vars

\* C4 as amended: frame_index stays in 0..K-1; an iteration that presents
\* advances it by one modulo K, an iteration that returns early because
\* acquisition reported out-of-date leaves it unchanged.
FrameIndexAdvance ==
    /\ [](frame_index \in 0 .. (k_frames_in_flight - 1))
    /\ [][(pc # "loop" /\ pc' = "loop")
            => frame_index' = IF it.acquire = "OUT_OF_DATE"
                              THEN frame_index
                              ELSE (frame_index + 1) % k_frames_in_flight]_vars

FrameIndexKeptOnStaleAcquire ==
    pc = "loop" /\ it.acquire = "OUT_OF_DATE" /\ frame_index = 1

\* C5: a slot has at most one uncompleted submission, its fence is unsignalled
\* while it has one, and the fence wait of an iteration returns only when the
\* slot it uses has none.
SlotFenceGate ==
    /\ [](\A s \in Slots : Pending(s) <= 1 /\ (Pending(s) = 1 => ~fence[s]))
    /\ [][(pc = "df_wait" /\ pc' = "df_acquire") => Pending(frame_index) = 0]_vars

ThirdIterationBlocked ==
    /\ pc = "df_wait"
    /\ frame_index = 0
    /\ Len(queue) = 2
    /\ queue[1].slot = 0
    /\ queue[2].slot = 1
    /\ ~FenceWaitDone(frame_index)

\* C6: at the start of an iteration a slot's fence is unsignalled exactly when
\* the slot has an uncompleted submission, so an unsignalled fence always has
\* a submission that will signal it.
FenceUnsignaledIffPending ==
    pc = "df_wait" => \A s \in Slots : (~fence[s] <=> Pending(s) > 0)

\* C7: a slot's command buffer is reset and recorded only when the slot has no
\* uncompleted submission, and every submission of a slot submits the command
\* buffer recorded in that iteration.
RecordAfterCompletionBeforeSubmit ==
    /\ [](\A s \in Slots : cmd[s] = "executable" => Pending(s) = 0)
    /\ [][\A s \in Slots :
            (cmd'[s] = "executable" /\ cmd[s] # "executable")
                => (Pending(s) = 0 /\ cmd[s] # "pending" /\ s = frame_index)]_vars
    /\ [][Len(queue') > Len(queue)
            => (cmd[frame_index] = "executable" /\ it.recorded
                /\ queue' = Append(queue, queue'[Len(queue')])
                /\ queue'[Len(queue')].slot = frame_index)]_vars

SlotRecordedAgain ==
    /\ pc = "df_submit"
    /\ frame_index = 0
    /\ cmd[0] = "executable"
    /\ cmd[1] = "pending"

SurfaceDestroyedOnlyWhenIdle ==
    (pc = "rc_destroy" \/ ~swapchain.live) => DeviceIdle

SurfaceDestroyedAfterSubmit ==
    ~swapchain.live /\ it.submitted = 1 /\ cmd[frame_index] = "invalid"

OffscreenReplacedOnlyWhenUnreferenced ==
    /\ [](\A i \in 1 .. Len(queue) :
            /\ OffscreenLive(queue[i].target)
            /\ offscreen[queue[i].target].tex = queue[i].tex)
    /\ [][\A s \in Slots :
            offscreen'[s] # offscreen[s]
                => \A i \in 1 .. Len(queue) : queue[i].target # s]_vars

OffscreenRebuiltAfterUse ==
    pc = "ro_create" /\ \A s \in Slots : cmd[s] = "invalid"

\* C12: the command buffer of the iteration with frame index s renders the 3D
\* pass into offscreen[s] and its UI pass samples the texture handle that
\* offscreen[s] has registered at that time, which is no other slot's handle
\* (until shutdown_all, which destroys the targets after the loop has ended).
PassesUseSameSlotTarget ==
    /\ \A s \in Slots :
          (cmd[s] \in {"executable", "pending"} /\ ~InShutdown) =>
              /\ cmd_body[s].target = s
              /\ cmd_body[s].tex # 0
              /\ cmd_body[s].tex = offscreen[s].tex
              /\ \A t \in Slots : t # s => cmd_body[s].tex # offscreen[t].tex
    /\ pc = "df_submit" => cmd[frame_index] = "executable"
    /\ \A i \in 1 .. Len(queue) :
          queue[i].target = queue[i].slot /\ queue[i].tex = offscreen[queue[i].slot].tex

SampledAfterRebuild ==
    /\ pc = "df_submit"
    /\ frame_index = 1
    /\ it.off_rebuilt = Slots
    /\ cmd_body[1].tex = offscreen[1].tex

\* C13: an iteration submits at most once, what it submits is the command
\* buffer it recorded, holding the offscreen pass followed by the UI pass, and
\* an iteration that presents has submitted exactly once.
OnePassSequenceOneSubmit ==
    /\ it.submitted <= 1
    /\ it.submitted = 1 => it.recorded
    /\ it.presented => it.submitted = 1
    /\ \A i \in 1 .. Len(queue) : queue[i].passes = << "offscreen", "swapchain" >>
    /\ \A s \in Slots :
          cmd[s] = "executable" => cmd_body[s].passes = << "offscreen", "swapchain" >>

BothPassesSubmitted ==
    /\ pc = "df_present"
    /\ Len(queue) = 2
    /\ queue[2].passes = << "offscreen", "swapchain" >>

\* C14: while the window reports zero framebuffer area recreate_swapchain stays
\* in its wait loop: it does not wait for device idle, destroy or create the
\* surface before a nonzero size is observed, and no step of the frame loop
\* (shutdown_all apart) changes the surface while the area is zero.
ZeroAreaSuspendsRebuild ==
    /\ [](pc \in {"rc_idle", "rc_destroy", "rc_create"}
            => (fb_size[1] # 0 /\ fb_size[2] # 0))
    /\ [][(pc = "rc_size" /\ (fb_size[1] = 0 \/ fb_size[2] = 0))
            => (pc' = "rc_size" /\ swapchain' = swapchain
                /\ it'.rebuilt = it.rebuilt)]_vars
    /\ [][(swapchain' # swapchain /\ pc # "sd_swapchain")
            => (fb_size[1] # 0 /\ fb_size[2] # 0)]_vars

RebuildSuspended ==
    pc = "rc_size" /\ fb_size[1] = 0 /\ fb_size[2] # 0 /\ it.presented

TextureUnregisteredBeforeFree ==
    \A s \in Slots : offscreen[s].tex # 0 => OffscreenLive(s)

TextureUnregisteredFirst ==
    /\ pc = "ro_destroy"
    /\ ro_pos = << 1, 2 >>
    /\ offscreen[1].tex = 0
    /\ OffscreenLive(1)

\* C20: every offscreen target has width >= 1 and height >= 1 in every state.
OffscreenSizeAtLeastOne ==
    \A s \in Slots : offscreen[s].width >= 1 /\ offscreen[s].height >= 1

ZeroPanelClamped ==
    /\ pc = "ui_image"
    /\ it.off_stale
    /\ \A s \in Slots : offscreen[s].width = 1 /\ offscreen[s].height = 1

\* C16 as claimed: after a rebuild at window size (w, h) the surface extent is
\* (w, h), whatever the capability set.
SurfaceExtentEqualsWindow ==
    (it.rebuilt > 0 /\ swapchain.live) => swapchain.extent = fb_size

\* C16 as amended: after a rebuild the surface extent is the capability set's
\* currentExtent when that is defined, and otherwise the window size (w, h)
\* clamped componentwise to [minImageExtent, maxImageExtent].
SurfaceExtentFollowsCaps ==
    (it.rebuilt > 0 /\ swapchain.live) =>
        IF it.caps.currentExtent[1] # 0 - 1
        THEN swapchain.extent = it.caps.currentExtent
        ELSE \A k \in 1 .. 2 :
                LET lo == it.caps.minImageExtent[k]
                    hi == it.caps.maxImageExtent[k]
                IN  /\ (lo <= fb_size[k] /\ fb_size[k] <= hi)
                        => swapchain.extent[k] = fb_size[k]
                    /\ fb_size[k] < lo => swapchain.extent[k] = lo
                    /\ fb_size[k] > hi => swapchain.extent[k] = hi

SurfaceExtentClamped ==
    /\ pc = "surface"
    /\ it.rebuilt = 1
    /\ it.caps.currentExtent[1] = 0 - 1
    /\ fb_size = << 1, 1 >>
    /\ swapchain.extent = << 2, 2 >>

\* C17: after startup, after every rebuild and after teardown the surface has
\* as many framebuffers as images and as image views; after teardown it has
\* none of them (a surface is not looked at while it is being destroyed, nor
\* between a failed creation and its release by shutdown_all).
SurfaceCountsAgree ==
    /\ pc \notin {"fatal", "rc_destroy", "sd_cube", "sd_offscreen", "sd_imgui",
                  "sd_sync", "sd_cmd_pool", "sd_swapchain", "crashed"} =>
          /\ swapchain.framebuffers = swapchain.images
          /\ swapchain.views = swapchain.images
    /\ pc = "terminated" => (~swapchain.live /\ swapchain.images = 0)

SurfaceRebuiltWithMoreImages ==
    /\ pc = "surface"
    /\ it.rebuilt = 1
    /\ swapchain.images = 3
    /\ swapchain.framebuffers = 3

\* C18: no step of recreate_offscreen changes the presentation surface, and
\* no step of recreate_swapchain changes an offscreen target.
SurfaceAndOffscreenIndependent ==
    [][/\ pc \in {"ro_idle", "ro_destroy", "ro_create"} => swapchain' = swapchain
       /\ pc \in {"rc_size", "rc_idle", "rc_destroy", "rc_create"}
            => offscreen' = offscreen]_vars

BothRebuiltInOneIteration ==
    /\ pc = "df_advance"
    /\ it.rebuilt = 1
    /\ it.off_rebuilt = Slots
    /\ swapchain.live
    /\ \A s \in Slots : OffscreenLive(s) /\ offscreen[s].width = 1

DeviceErrorIsFatal ==
    it.error => pc = "fatal"

\* C23 as claimed: a stale surface and a stale offscreen target raise no error
\* out of the loop (the loop ends with an error only after a device-level
\* failure), and the loop continues after handling them: once the device is
\* idle the fence wait of the next iteration can return.
StaleConditionsHandled ==
    /\ pc = "fatal" => it.error
    /\ (pc = "df_wait" /\ DeviceIdle) => fence[frame_index]

\* C26: destroy_swapchain_resources releases every framebuffer before any
\* image view and before the swapchain: while a framebuffer exists every image
\* view and the swapchain with its images exist, and while an image view
\* exists the swapchain exists.
FramebuffersReleasedFirst ==
    /\ swapchain.framebuffers > 0 =>
          (swapchain.views = swapchain.images /\ swapchain.live)
    /\ swapchain.views > 0 => swapchain.live
    /\ swapchain.framebuffers <= swapchain.views
    /\ swapchain.views <= swapchain.images

FramebuffersGoneViewsLeft ==
    /\ pc = "rc_destroy"
    /\ swapchain.framebuffers = 0
    /\ swapchain.views = 1
    /\ swapchain.images = 2
    /\ swapchain.live

\* C24 as claimed: create_swapchain does not return a surface when the
\* device reports zero images or the window reports zero area.
CreationFailsWithoutImagesOrArea ==
    (swapchain.live /\ pc \in {"init", "loop"})
        => (swapchain.images > 0 /\ fb_size[1] > 0 /\ fb_size[2] > 0)

\* C25 as claimed: for every capability set with minImageCount >= 1 the
\* requested image count is at least 2, and so is the number of images of a
\* surface for which the device reports at least the requested count.
SurfaceHasAtLeastTwoImages ==
    (swapchain.live /\ pc \in {"init", "loop"} /\ it.caps.minImageCount >= 1) =>
        /\ it.requested >= 2
        /\ swapchain.images >= it.requested => swapchain.images >= 2

\* C25 as amended: the requested image count is minImageCount + 1 capped at
\* maxImageCount when maxImageCount > 0: it lies between minImageCount and
\* minImageCount + 1, does not exceed a positive maxImageCount, is at least 2
\* unless maxImageCount = 1 and is 1 then; a surface for which the device
\* reports any image has at least the requested number.
RequestedCountWithinCaps ==
    (swapchain.live /\ pc \in {"init", "loop"}) =>
        LET c == it.caps
            n == it.requested
        IN  /\ c.minImageCount <= n
            /\ n <= c.minImageCount + 1
            /\ c.maxImageCount > 0 => n <= c.maxImageCount
            /\ c.maxImageCount # 1 => n >= 2
            /\ c.maxImageCount = 1 => n = 1
            /\ swapchain.images # 0 => swapchain.images >= n

SingleImageSurface ==
    /\ pc = "loop"
    /\ it.requested = 1
    /\ swapchain.images = 1
    /\ swapchain.framebuffers = 1

\* C30 as claimed: when init_all has failed, shutdown_all shuts the UI backend
\* down only if it had been initialised (and so never crashes in it).
UiBackendShutDownOnlyIfInitialised ==
    /\ pc # "crashed"
    /\ (pc = "sd_imgui" /\ "device" \in handles) => "imgui" \in handles

\* C29: a resize notification delivered while the loop polls its events is
\* followed by a surface rebuild before that iteration ends unless the
\* iteration ends in a fatal error, no iteration ends with framebuffer_resized
\* set, and framebuffer_resized is false when a rebuild has completed.
ResizeRebuiltInSameIteration ==
    /\ IterationEnded => ~framebuffer_resized
    /\ (IterationEnded /\ it.resized) => it.rebuilt >= 1
    /\ (it.rebuilt >= 1 /\ ~InRecreateSwapchain /\ pc # "fatal") => ~framebuffer_resized

ResizeRebuiltAfterPresent ==
    /\ pc = "df_advance"
    /\ it.resized
    /\ it.acquire = "SUCCESS"
    /\ it.presented
    /\ it.rebuilt = 1
    /\ ~framebuffer_resized

\* C27: while the window is not resized, nothing is stale and the device
\* completes every submission, every iteration that starts passes its fence
\* wait, submits once, presents and ends with frame_index advanced by one; the
\* fence wait of a slot that has never been submitted needs no device
\* completion, because its fence was created signaled.
FrameLoopNeverBlocks ==
    /\ []((pc = "df_wait" /\ cmd[frame_index] = "initial") => fence[frame_index])
    /\ \A s \in Slots :
          (pc = "ui" /\ frame_index = s)
              ~> (pc = "loop" /\ it.presented /\ it.submitted = 1
                    /\ frame_index = (s + 1) % k_frames_in_flight)

LastSlotPassedWithoutCompletion ==
    /\ pc = "df_acquire"
    /\ frame_index = k_frames_in_flight - 1
    /\ cmd[frame_index] = "initial"
    /\ Len(queue) = k_frames_in_flight - 1

\* C28 as claimed: once the window has signalled a close request (also one
\* delivered while the window has zero area) run_loop returns or ends fatally.
CloseRequestEndsLoop ==
    should_close ~> (pc \in {"done", "fatal"} \/ InShutdown)

\* C32: shutdown_all destroys nothing before the device is idle, unregisters
\* the offscreen texture handles before it shuts the UI backend down, destroys
\* pipeline and buffers, offscreen targets, sync objects, command pool, surface
\* resources and allocator before the device, and the device before the
\* instance.
ShutdownRespectsDependencies ==
    /\ (pc \notin {"loop", "done", "fatal"} /\ handles # AllHandles) => DeviceIdle
    /\ (InShutdown /\ "device" \in handles) => DeviceIdle
    /\ "imgui" \notin handles => \A s \in Slots : offscreen[s].tex = 0
    /\ "device" \notin handles =>
          /\ handles \cap {"cube", "sync", "cmd_pool", "allocator", "imgui_pool"} = {}
          /\ \A s \in Slots : offscreen[s] = NullOffscreen
          /\ swapchain = SwapchainGone
    /\ "instance" \notin handles => handles \cap {"device", "surface"} = {}

DeviceGoneInstanceLeft ==
    /\ pc = "sd_instance"
    /\ "instance" \in handles
    /\ handles \cap {"device", "allocator", "sync", "cmd_pool", "cube", "imgui"} = {}
    /\ swapchain = SwapchainGone
    /\ \A s \in Slots : offscreen[s] = NullOffscreen

\* C31 as claimed: when a slot is about to be submitted again, and so to
\* signal its render_complete semaphore again, no present queued by an earlier
\* use of the slot is still waiting on that semaphore.
SemaphoreConsumedBeforeResubmit ==
    pc = "df_submit" => \A k \in 1 .. Len(sem_wait) : sem_wait[k].slot # frame_index

\* C33: in the DSEngine main loop a present is issued only while
\* g_SwapChainRebuild is false, and the flag goes from true to false only in
\* a rebuild that main performs for a window of positive width and height.
NoPresentUntilRebuilt ==
    [][ /\ (~ds_it.presented /\ ds_it'.presented) => ~g_SwapChainRebuild
        /\ (g_SwapChainRebuild /\ ~g_SwapChainRebuild') =>
              /\ win[1] > 0
              /\ win[2] > 0
              /\ ds_it'.rebuilt
              /\ wd'.Width = win[1]
              /\ wd'.Height = win[2] ]_vars

RebuildPendingAtZeroArea ==
    /\ ds_pc = "render"
    /\ g_SwapChainRebuild
    /\ win[1] = 0 \/ win[2] = 0
    /\ ~ds_it.rebuilt

\* C34 as claimed: an iteration of the DSEngine main loop that has submitted
\* rendering work for an acquired image has issued a present request for it
\* by the time it ends.
RenderedImagePresented ==
    (ds_pc = "top" /\ ds_it.submitted) => ds_it.presented

\* C35 as claimed: when the device offers more than one format, the selected
\* format is the highest-priority requested format offered with the sRGB
\* non-linear colour space, and the first offered format only when no
\* requested format is offered so.
SelectedFormatFollowsPreference ==
    (ds_pc = "selected" /\ Len(avail_format) > 1) =>
        LET offered == { k \in 1 .. 4 : \E a \in 1 .. Len(avail_format) :
                            /\ avail_format[a].format = request_surface_image_format[k]
                            /\ avail_format[a].colorSpace = "SRGB_NONLINEAR" }
        IN  IF offered = {}
            THEN m_surface_format = avail_format[1]
            ELSE /\ m_surface_format.colorSpace = "SRGB_NONLINEAR"
                 /\ m_surface_format.format =
                       request_surface_image_format[
                          CHOOSE k \in offered : \A j \in offered : k <= j]

====
